---- MODULE Spec2Model ----
(***************************************************************************)
(* Model of src/code_assistant.py: the AICodeAssistant class, its five     *)
(* public capabilities, the bare-except detector and the code-block        *)
(* extraction.  Text is modelled as sequences of Unicode code points so    *)
(* that string equality, containment and the regular expression of         *)
(* _extract_code are decided character by character.                       *)
(***************************************************************************)
EXTENDS Integers, Sequences, FiniteSets, TLC

VARIABLES
    assistants,      \* instance -> [api_key, model] (self.api_key, self.model)
    openai_api_key,  \* the module-level setting openai.api_key
    pc,              \* the caller's position: "ready" or "returned"
    op,              \* name of the capability that ran last, or None
    self,            \* instance the capability was invoked on, or 0
    code,            \* the code argument of the invocation, or NoCode
    style,           \* the style argument of refactor, or None
    remote,          \* what the service did with the invocation's call, or NoRemote
    status,          \* "returned", "raised", or None
    result,          \* the value returned, or the exception raised, to the caller
    wire             \* the outbound calls the invocation issued, in order

vars ==
    <<assistants, openai_api_key, pc, op, self, code, style, remote, status, result, wire>>

\* Python's None where a name or a class is expected.
None == "None"

-----------------------------------------------------------------------------
(* Bounds of the model.                                                    *)

\* Number of AICodeAssistant objects that can be constructed.
MaxInst == 2
\* Number of syntax-tree nodes below the Module node of a parsed snippet.
MaxNodes == 7
\* Highest line the parser reports for a syntax error.
MaxErrLine == 2
\* Number of segments a response text of the general specification is made of.
MaxSegs == 1
\* Number of segments a response text of the extraction specification is made of.
MaxTextSegs == 9

-----------------------------------------------------------------------------
(* Text constants of the source, as code points.                           *)

\* "Bare except clause - specify exception type"
BareExceptDescription ==
    <<66, 97, 114, 101, 32, 101, 120, 99, 101, 112, 116, 32, 99, 108, 97, 117,
      115, 101, 32, 45, 32, 115, 112, 101, 99, 105, 102, 121, 32, 101, 120, 99,
      101, 112, 116, 105, 111, 110, 32, 116, 121, 112, 101>>

\* "except Exception as e:"
BareExceptFix ==
    <<101, 120, 99, 101, 112, 116, 32, 69, 120, 99, 101, 112, 116, 105, 111,
      110, 32, 97, 115, 32, 101, 58>>

\* "Syntax Error: "
SyntaxErrorPrefix == <<83, 121, 110, 116, 97, 120, 32, 69, 114, 114, 111, 114, 58, 32>>

\* "invalid syntax"
MsgInvalidSyntax == <<105, 110, 118, 97, 108, 105, 100, 32, 115, 121, 110, 116, 97, 120>>

\* "unexpected indent"
MsgUnexpectedIndent ==
    <<117, 110, 101, 120, 112, 101, 99, 116, 101, 100, 32, 105, 110, 100, 101, 110, 116>>

\* "source code string cannot contain null bytes"
MsgNullBytes ==
    <<115, 111, 117, 114, 99, 101, 32, 99, 111, 100, 101, 32, 115, 116, 114, 105,
      110, 103, 32, 99, 97, 110, 110, 111, 116, 32, 99, 111, 110, 116, 97, 105,
      110, 32, 110, 117, 108, 108, 32, 98, 121, 116, 101, 115>>

\* "```", "python", "\n"
Fence == <<96, 96, 96>>
Python == <<112, 121, 116, 104, 111, 110>>
Newline == <<10>>

-----------------------------------------------------------------------------
(* Syntax trees, as ast.parse returns them.  A tree is the sequence of its *)
(* nodes below the Module node in source order (pre-order); a node names   *)
(* its parent by index, 0 being the Module node.  Every statement and      *)
(* every handler clause starts a line of its own; the Name node of a typed *)
(* handler ("except ValueError:") lies on the line of its handler.         *)

StmtKinds == {"Try", "FunctionDef", "Pass"}
Compound == {"Try", "FunctionDef", "ExceptHandler"}

Node(kind, lineno, type, parent) ==
    [kind |-> kind, lineno |-> lineno, type |-> type, parent |-> parent]

\* ast.iter_child_nodes: the direct children of node n (0 is Module), in field order.
iter_child_nodes(tree, n) ==
    LET RECURSIVE from(_)
        from(j) == IF j > Len(tree) THEN <<>>
                   ELSE IF tree[j].parent = n THEN <<j>> \o from(j + 1)
                   ELSE from(j + 1)
    IN from(1)

StmtChildren(tree, n) ==
    {j \in 1..Len(tree) : tree[j].parent = n /\ tree[j].kind \in StmtKinds}

HandlerChildren(tree, n) ==
    {j \in 1..Len(tree) : tree[j].parent = n /\ tree[j].kind = "ExceptHandler"}

\* A compound statement is complete once it has a body, and a try its handler.
Complete(tree, n) ==
    \/ n = 0
    \/ tree[n].kind \in {"Pass", "Name"}
    \/ /\ tree[n].kind \in Compound
       /\ StmtChildren(tree, n) # {}
       /\ tree[n].kind = "Try" => HandlerChildren(tree, n) # {}

\* The chain of blocks still open after the last node: the last node and its ancestors.
RECURSIVE Ancestors(_, _)
Ancestors(tree, n) ==
    IF n = 0 THEN <<0>> ELSE <<n>> \o Ancestors(tree, tree[n].parent)

OpenChain(tree) == Ancestors(tree, Len(tree))

LastLine(tree) == IF tree = <<>> THEN 0 ELSE tree[Len(tree)].lineno

\* The trees obtained from tree by one more statement or handler clause
\* under the k-th block of the open chain, closing the blocks before it.
ExtendAt(tree, k) ==
    LET chain == OpenChain(tree)
        p == chain[k]
        closedOk == \A i \in 1..(k - 1) : Complete(tree, chain[i])
        pKind == IF p = 0 THEN "Module" ELSE tree[p].kind
        isBlock == pKind \in Compound \cup {"Module"}
        next == LastLine(tree) + 1
        stmts ==
            IF pKind = "Try" /\ HandlerChildren(tree, p) # {} THEN {}
            ELSE {<<Node(kd, next, None, p)>> : kd \in StmtKinds}
        handlers ==
            IF pKind = "Try" /\ StmtChildren(tree, p) # {}
            THEN {<<Node("ExceptHandler", next, None, p)>>,
                  <<Node("ExceptHandler", next, "Name", p),
                    Node("Name", next, None, Len(tree) + 1)>>}
            ELSE {}
    IN IF closedOk /\ isBlock
       THEN {tree \o add : add \in stmts \cup handlers}
       ELSE {}

Extend(tree) ==
    UNION {ExtendAt(tree, k) : k \in 1..Len(OpenChain(tree))}

\* The number of nodes node n still lacks: a body, and for a try a handler
\* with its body.
Lacks(tree, n) ==
    IF n = 0 \/ tree[n].kind \notin Compound THEN 0
    ELSE (IF StmtChildren(tree, n) = {} THEN 1 ELSE 0)
         + (IF tree[n].kind = "Try" /\ HandlerChildren(tree, n) = {} THEN 2 ELSE 0)

\* The least number of nodes of a valid tree that starts with tree.
LeastSize(tree) ==
    LET chain == OpenChain(tree)
        RECURSIVE sum(_)
        sum(k) == IF k > Len(chain) THEN 0 ELSE Lacks(tree, chain[k]) + sum(k + 1)
    IN Len(tree) + sum(1)

\* The starts of valid trees of at most max nodes, grown n times from level.
RECURSIVE Grow(_, _, _)
Grow(level, n, max) ==
    IF n = 0 THEN level
    ELSE level \cup
         Grow({t \in UNION {Extend(tree) : tree \in level} : LeastSize(t) <= max},
              n - 1, max)

\* Every syntax tree of at most max nodes that a valid snippet parses to.
Trees(max) == {t \in Grow({<<>>}, max, max) : LeastSize(t) = Len(t)}

-----------------------------------------------------------------------------
(* Python values and exceptions.                                           *)

PyStr(s) == [type |-> "str", v |-> s]
PyList(l) == [type |-> "list", v |-> l]
PyNone == [type |-> "NoneType", v |-> <<>>]

\* An optional integer: Python's None, or an int.
NoInt == <<>>
Int1(n) == <<n>>

\* An exception object; lineno and msg are those of a SyntaxError.
Exc(cls, lineno, msg) == [class |-> cls, lineno |-> lineno, msg |-> msg]

\* The outcome of evaluating an expression: a value, or a raised exception.
Ok(v) == [raised |-> FALSE, value |-> v]
Raise(e) == [raised |-> TRUE, value |-> e]

\* issubclass(cls, base) for the exception classes that occur.
IsSubclass(cls, base) ==
    \/ cls = base
    \/ base = "Exception"
    \/ cls = "IndentationError" /\ base = "SyntaxError"

\* A slip: -1 instead of b for a missing line.
PyOr_minus_one(a, b) == IF a = NoInt \/ a = Int1(0) THEN -1 ELSE a[1]

\* Python's "a or b" on an optional integer.
PyOr(a, b) == IF a = NoInt \/ a = Int1(0) THEN b ELSE a[1]

-----------------------------------------------------------------------------
(* Inputs: code snippets and what the text-generation service answers.     *)
(* A snippet is identified by what ast.parse makes of it.                  *)

Parsed(tree) ==
    [parse |-> "ok", tree |-> tree, error |-> None, lineno |-> NoInt, msg |-> <<>>]
Unparsed(cls, lineno, msg) ==
    [parse |-> "error", tree |-> <<>>, error |-> cls, lineno |-> lineno, msg |-> msg]
NoCode == [parse |-> "none", tree |-> <<>>, error |-> None, lineno |-> NoInt, msg |-> <<>>]

\* Snippets the parser rejects with a SyntaxError (or its subclass).
SyntaxErrorSnippets ==
    {Unparsed("SyntaxError", Int1(l), MsgInvalidSyntax) : l \in 1..MaxErrLine}
    \cup {Unparsed("IndentationError", Int1(l), MsgUnexpectedIndent) : l \in 1..MaxErrLine}
    \cup {Unparsed("SyntaxError", NoInt, MsgNullBytes)}

\* Snippets on which the parser fails otherwise (too deeply nested input).
ParserFailureSnippets ==
    {Unparsed("MemoryError", NoInt, <<>>), Unparsed("RecursionError", NoInt, <<>>)}

\* The snippets whose tree, if they have one, has at most max nodes.
Snippets(max) ==
    {Parsed(t) : t \in Trees(max)} \cup SyntaxErrorSnippets \cup ParserFailureSnippets

\* "try:\n    x = 1\nexcept:\n    pass"
BareExceptSnippet ==
    Parsed(<<Node("Try", 1, None, 0), Node("Pass", 2, None, 1),
             Node("ExceptHandler", 3, None, 1), Node("Pass", 4, None, 3)>>)

\* "try:\n    x = 1\nexcept ValueError:\n    pass"
TypedExceptSnippet ==
    Parsed(<<Node("Try", 1, None, 0), Node("Pass", 2, None, 1),
             Node("ExceptHandler", 3, "Name", 1), Node("Name", 3, None, 3),
             Node("Pass", 4, None, 3)>>)

\* The snippets of the general specification.
Codes ==
    {BareExceptSnippet, TypedExceptSnippet,
     Unparsed("SyntaxError", Int1(1), MsgInvalidSyntax),
     Unparsed("SyntaxError", NoInt, MsgNullBytes),
     Unparsed("MemoryError", NoInt, <<>>)}

Styles == {"clean_code", "performance"}
Keys == {"sk-A", "sk-B"}
Models == {"gpt-4", "gpt-3.5-turbo"}
Inst == 1..MaxInst

Segments == {Fence, Python, Newline}

RECURSIVE Flatten(_)
Flatten(segs) == IF segs = <<>> THEN <<>> ELSE Head(segs) \o Flatten(Tail(segs))

\* The texts made of at most n segments.
Texts(n) == {Flatten(segs) : segs \in UNION {[1..k -> Segments] : k \in 0..n}}

RemoteErrors == {"APIConnectionError", "AuthenticationError", "RateLimitError"}

Answer(content) == [kind |-> "ok", content |-> content, error |-> None]
NoChoices == [kind |-> "no_choices", content |-> PyNone, error |-> None]
Failure(e) == [kind |-> "error", content |-> PyNone, error |-> e]
NoRemote == [kind |-> "none", content |-> PyNone, error |-> None]

\* What the service can do with a call: answer with a text, answer with no
\* content, answer with no choice at all, or fail.
Outcomes(n) ==
    {Answer(PyStr(t)) : t \in Texts(n)}
    \cup {Answer(PyNone), NoChoices}
    \cup {Failure(e) : e \in RemoteErrors}

-----------------------------------------------------------------------------
(* The program.                                                            *)

\* fix_suggestion is Optional[str].
BugReport(line_number, severity, description, fix_suggestion) ==
    [line_number |-> line_number, severity |-> severity,
     description |-> description, fix_suggestion |-> fix_suggestion]

\* ast.parse(code)
ast_parse(c) ==
    IF c.parse = "ok" THEN Ok(c.tree)
    ELSE Raise(Exc(c.error, c.lineno, c.msg))

\* ast.walk(tree): breadth first from the Module node, each node once.
ast_walk(tree) ==
    LET RECURSIVE drain(_)
        drain(todo) ==
            IF todo = <<>> THEN <<>>
            ELSE <<Head(todo)>>
                 \o drain(Tail(todo) \o iter_child_nodes(tree, Head(todo)))
    IN drain(<<0>>)

\* isinstance(node, ast.ExceptHandler) and node.type is None
IsBareExcept(tree, n) ==
    n # 0 /\ tree[n].kind = "ExceptHandler" /\ tree[n].type = None

\* A slip: the description names the line of the clause.
BareExceptReport_with_line(node) ==
    BugReport(node.lineno, "MEDIUM", Append(BareExceptDescription, 48 + node.lineno),
              PyStr(BareExceptFix))

\* The report appended for a bare handler.
BareExceptReport(node) ==
    BugReport(node.lineno, "MEDIUM", BareExceptDescription, PyStr(BareExceptFix))

\* A slip: the test "node.type is None" left out.
_ast_analysis_any_handler(tree) ==
    LET order == ast_walk(tree)
        RECURSIVE loop(_)
        loop(k) ==
            IF k > Len(order) THEN <<>>
            ELSE (IF order[k] # 0 /\ tree[order[k]].kind = "ExceptHandler"
                  THEN <<BareExceptReport(tree[order[k]])>>
                  ELSE <<>>) \o loop(k + 1)
    IN loop(1)

_ast_analysis(tree) ==
    LET order == ast_walk(tree)
        RECURSIVE loop(_)
        loop(k) ==
            IF k > Len(order) THEN <<>>
            ELSE (IF IsBareExcept(tree, order[k])
                  THEN <<BareExceptReport(tree[order[k]])>>
                  ELSE <<>>) \o loop(k + 1)
    IN loop(1)

\* A slip: the parser's message left out of the description.
SyntaxErrorReport_no_msg(e) ==
    BugReport(PyOr(e.lineno, 0), "HIGH", SyntaxErrorPrefix, PyNone)

\* The report appended in "except SyntaxError as e".
SyntaxErrorReport(e) ==
    BugReport(PyOr(e.lineno, 0), "HIGH", SyntaxErrorPrefix \o e.msg, PyNone)

\* The static part of analyze_code: the findings in bugs before the AI part,
\* or the exception that leaves analyze_code.
static_analysis(c) ==
    LET parsed == ast_parse(c)
    IN IF ~parsed.raised THEN Ok(_ast_analysis(parsed.value))
       ELSE IF IsSubclass(parsed.value.class, "SyntaxError")
            THEN Ok(<<SyntaxErrorReport(parsed.value)>>)
            ELSE parsed

\* openai.ChatCompletion.create(model=self.model, messages=[...]): the request
\* as it leaves.  No api_key is passed, so the library sends openai.api_key.
ChatCompletion(i, task, c) ==
    [task |-> task, api_key |-> openai_api_key, model |-> assistants[i].model,
     code |-> c]

\* openai.ChatCompletion.create(...) as an expression: the response or an exception.
create(r) == IF r.kind = "error" THEN Raise(Exc(r.error, NoInt, <<>>)) ELSE Ok(r)

\* response.choices[0].message.content
first_content(response) ==
    IF response.kind = "no_choices" THEN Raise(Exc("IndexError", NoInt, <<>>))
    ELSE Ok(response.content)

\* try: <body> except Exception: return <default>
ExceptException(body, default) ==
    IF body.raised /\ IsSubclass(body.value.class, "Exception") THEN Ok(default)
    ELSE body

_parse_suggestions(response_text) == PyList(<<>>)

\* The literal s occurs in text at position i.
OccursAt(text, i, s) ==
    /\ i >= 1
    /\ i + Len(s) - 1 <= Len(text)
    /\ \A k \in 1..Len(s) : text[i + k - 1] = s[k]

\* re.findall(r'```(?:python)?\n(.*?)\n```', text, re.DOTALL): the contents of
\* the non-overlapping matches, leftmost first; in a match the group is the
\* shortest text after the opening that a newline and a fence follow.
findall(text) ==
    LET n == Len(text)
        \* where the group starts when the opening matches at i, or 0
        Open(i) ==
            IF OccursAt(text, i, Fence \o Python \o Newline)
            THEN i + Len(Fence \o Python \o Newline)
            ELSE IF OccursAt(text, i, Fence \o Newline)
                 THEN i + Len(Fence \o Newline)
                 ELSE 0
        \* where the closing starts for a group starting at c, or 0
        RECURSIVE Close(_)
        Close(j) ==
            IF j > n THEN 0
            ELSE IF OccursAt(text, j, Newline \o Fence) THEN j
            ELSE Close(j + 1)
        RECURSIVE scan(_)
        scan(i) ==
            IF i > n THEN <<>>
            ELSE LET c == Open(i)
                     j == IF c = 0 THEN 0 ELSE Close(c)
                 IN IF j = 0 THEN scan(i + 1)
                    ELSE <<SubSeq(text, c, j - 1)>>
                         \o scan(j + Len(Newline \o Fence))
    IN scan(1)

\* A slip: "matches[0] or text", which takes an empty content for no match.
_extract_code_truthy(text) ==
    IF text.type # "str" THEN Raise(Exc("TypeError", NoInt, <<>>))
    ELSE LET matches == findall(text.v)
         IN Ok(IF matches # <<>> /\ matches[1] # <<>> THEN PyStr(matches[1]) ELSE text)

\* matches[0] if matches else text; re.findall raises TypeError unless text is a str
_extract_code(text) ==
    IF text.type # "str" THEN Raise(Exc("TypeError", NoInt, <<>>))
    ELSE LET matches == findall(text.v)
         IN Ok(IF matches # <<>> THEN PyStr(matches[1]) ELSE text)

\* What an invocation leaves behind: how it ended, with what, and its calls.
Outcome(body, calls) ==
    [status |-> IF body.raised THEN "raised" ELSE "returned",
     value |-> body.value, wire |-> calls]

complete_code_run(i, c, r) ==
    LET response == create(r)
        content == first_content(response.value)
        body == IF response.raised THEN response
                ELSE IF content.raised THEN content
                ELSE Ok(_parse_suggestions(content.value))
    IN Outcome(ExceptException(body, PyList(<<>>)),
               <<ChatCompletion(i, "complete", c)>>)

\* A slip: a failed call is tried once more.
_ai_bug_detection_retry(i, c, r) ==
    LET response == create(r)
        body == IF response.raised THEN response ELSE Ok(<<>>)
        call == ChatCompletion(i, "analyze", c)
    IN Outcome(ExceptException(body, <<>>),
               IF response.raised THEN <<call, call>> ELSE <<call>>)

\* A change: the answer is turned into a finding.
_ai_bug_detection_parsed(i, c, r) ==
    LET response == create(r)
        content == first_content(response.value)
        body == IF response.raised THEN response
                ELSE IF content.raised THEN content
                ELSE IF content.value.type = "str" /\ content.value.v # <<>>
                     THEN Ok(<<BugReport(0, "LOW", content.value.v, PyNone)>>)
                     ELSE Ok(<<>>)
    IN Outcome(ExceptException(body, <<>>), <<ChatCompletion(i, "analyze", c)>>)

\* _ai_bug_detection(code): the findings it returns and the calls it issues.
_ai_bug_detection(i, c, r) ==
    LET response == create(r)
        body == IF response.raised THEN response ELSE Ok(<<>>)
    IN Outcome(ExceptException(body, <<>>), <<ChatCompletion(i, "analyze", c)>>)

analyze_code_run(i, c, r) ==
    LET static == static_analysis(c)
        ai == _ai_bug_detection(i, c, r)
    IN IF static.raised THEN Outcome(static, <<>>)
       ELSE IF ai.status = "raised" THEN ai
       ELSE Outcome(Ok(PyList(static.value \o ai.value)), ai.wire)

\* A slip: the empty string instead of code after a failed call.
refactor_run_empty_default(i, c, r) ==
    LET response == create(r)
        content == first_content(response.value)
        body == IF response.raised THEN response
                ELSE IF content.raised THEN content
                ELSE _extract_code(content.value)
    IN Outcome(ExceptException(body, PyStr(<<>>)),
               <<ChatCompletion(i, "refactor", c)>>)

refactor_run(i, c, r) ==
    LET response == create(r)
        content == first_content(response.value)
        body == IF response.raised THEN response
                ELSE IF content.raised THEN content
                ELSE _extract_code(content.value)
    IN Outcome(ExceptException(body, c), <<ChatCompletion(i, "refactor", c)>>)

generate_documentation_run(i, c, r) ==
    LET response == create(r)
        body == IF response.raised THEN response ELSE first_content(response.value)
    IN Outcome(ExceptException(body, PyStr(<<>>)),
               <<ChatCompletion(i, "document", c)>>)

explain_code_run(i, c, r) ==
    LET response == create(r)
        body == IF response.raised THEN response ELSE first_content(response.value)
    IN Outcome(ExceptException(body, PyStr(<<>>)),
               <<ChatCompletion(i, "explain", c)>>)

-----------------------------------------------------------------------------
(* Actions.  The caller is single-threaded and every capability blocks, so *)
(* an invocation is one step from "ready" to "returned"; the caller then   *)
(* takes the result and is ready for its next call.                        *)

NoAssistant == [api_key |-> None, model |-> None]

Constructed == {i \in Inst : assistants[i] # NoAssistant}

\* AICodeAssistant(api_key, model): a new object; instances are numbered in
\* the order of their construction.
__init__(api_key, model) ==
    /\ pc = "ready"
    /\ Cardinality(Constructed) < MaxInst
    /\ assistants' =
           [assistants EXCEPT ![Cardinality(Constructed) + 1] =
                                  [api_key |-> api_key, model |-> model]]
    /\ openai_api_key' = api_key
    /\ UNCHANGED <<pc, op, self, code, style, remote, status, result, wire>>

Invoke(name, i, c, st, r, run) ==
    /\ pc = "ready"
    /\ i \in Constructed
    /\ pc' = "returned"
    /\ op' = name
    /\ self' = i
    /\ code' = c
    /\ style' = st
    /\ remote' = IF run.wire = <<>> THEN NoRemote ELSE r
    /\ status' = run.status
    /\ result' = run.value
    /\ wire' = run.wire
    /\ UNCHANGED <<assistants, openai_api_key>>

complete_code(i, c, r) ==
    Invoke("complete_code", i, c, None, r, complete_code_run(i, c, r))

analyze_code(i, c, r) ==
    Invoke("analyze_code", i, c, None, r, analyze_code_run(i, c, r))

refactor(i, c, st, r) ==
    Invoke("refactor", i, c, st, r, refactor_run(i, c, r))

generate_documentation(i, c, r) ==
    Invoke("generate_documentation", i, c, None, r, generate_documentation_run(i, c, r))

explain_code(i, c, r) ==
    Invoke("explain_code", i, c, None, r, explain_code_run(i, c, r))

\* The caller takes the result (main prints it) and goes on.
Resume ==
    /\ pc = "returned"
    /\ pc' = "ready"
    /\ op' = None /\ self' = 0 /\ code' = NoCode /\ style' = None
    /\ remote' = NoRemote /\ status' = None /\ result' = PyNone /\ wire' = <<>>
    /\ UNCHANGED <<assistants, openai_api_key>>

Idle ==
    /\ pc = "ready"
    /\ op = None /\ self = 0 /\ code = NoCode /\ style = None
    /\ remote = NoRemote /\ status = None /\ result = PyNone /\ wire = <<>>

\* Before any assistant exists; openai.api_key is unset.
Init ==
    /\ assistants = [i \in Inst |-> NoAssistant]
    /\ openai_api_key = None
    /\ Idle

\* After assistant = AICodeAssistant(api_key=api_key) with the default model,
\* as in main.
InitConstructed ==
    /\ assistants = [i \in Inst |-> IF i = 1 THEN [api_key |-> "sk-A", model |-> "gpt-4"]
                                    ELSE NoAssistant]
    /\ openai_api_key = "sk-A"
    /\ Idle

\* The answers of the service in the general and in the analysis
\* specification, and in the extraction specification.
Responses == Outcomes(MaxSegs)
LongResponses == Outcomes(MaxTextSegs)

\* Any sequence of constructions and invocations over several assistants.
Next ==
    \/ \E k \in Keys, m \in Models : __init__(k, m)
    \/ pc = "ready" /\ \E i \in Constructed, c \in Codes, r \in Responses :
           complete_code(i, c, r)
    \/ pc = "ready" /\ \E i \in Constructed, c \in Codes, r \in Responses :
           analyze_code(i, c, r)
    \/ pc = "ready" /\ \E i \in Constructed, c \in Codes, st \in Styles, r \in Responses :
           refactor(i, c, st, r)
    \/ pc = "ready" /\ \E i \in Constructed, c \in Codes, r \in Responses :
           generate_documentation(i, c, r)
    \/ pc = "ready" /\ \E i \in Constructed, c \in Codes, r \in Responses :
           explain_code(i, c, r)
    \/ Resume

Spec == Init /\ [][Next]_vars

\* One assistant analysing every snippet of the bounded input space.
NextAnalyze ==
    \/ pc = "ready" /\ \E c \in Snippets(MaxNodes), r \in Responses :
           analyze_code(1, c, r)
    \/ Resume

SpecAnalyze == InitConstructed /\ [][NextAnalyze]_vars

\* One assistant refactoring, the service answering with every bounded text.
NextRefactor ==
    \/ pc = "ready" /\ \E c \in {BareExceptSnippet}, r \in LongResponses :
           refactor(1, c, "clean_code", r)
    \/ Resume

SpecRefactor == InitConstructed /\ [][NextRefactor]_vars

-----------------------------------------------------------------------------
(* Properties.                                                             *)

Returned(name) == pc = "returned" /\ op = name

Capabilities ==
    {"complete_code", "analyze_code", "refactor", "generate_documentation",
     "explain_code"}

BareHandlers(tree) ==
    {n \in 1..Len(tree) : tree[n].kind = "ExceptHandler" /\ tree[n].type = None}

TypedHandlers(tree) ==
    {n \in 1..Len(tree) : tree[n].kind = "ExceptHandler" /\ tree[n].type # None}

\* The findings of the bare handlers taken in source order instead.
SourceOrderLines(tree) ==
    LET RECURSIVE from(_)
        from(n) == IF n > Len(tree) THEN <<>>
                   ELSE (IF n \in BareHandlers(tree) THEN <<tree[n].lineno>> ELSE <<>>)
                        \o from(n + 1)
    IN from(1)

LinesOf(findings) == [k \in 1..Len(findings) |-> findings[k].line_number]

Count(seq, x) == Cardinality({k \in 1..Len(seq) : seq[k] = x})

Contains(text, s) == \E i \in 1..(Len(text) + 1) : OccursAt(text, i, s)

SyntaxErrorCode == code.parse = "error" /\ IsSubclass(code.error, "SyntaxError")

\* C1: for a valid snippet whose tree holds N handler clauses without a type,
\* at any depth, analyze_code returns exactly N findings, all MEDIUM, one at
\* the line of each such clause and none at the line of a typed handler (none
\* at all for N = 0); as a multiset they are the findings of any other
\* traversal order.
C1_OneFindingPerBareHandler ==
    (Returned("analyze_code") /\ code.parse = "ok") =>
        /\ status = "returned"
        /\ result.type = "list"
        /\ Len(result.v) = Cardinality(BareHandlers(code.tree))
        /\ \A k \in 1..Len(result.v) : result.v[k].severity = "MEDIUM"
        /\ \A n \in BareHandlers(code.tree) :
               Count(LinesOf(result.v), code.tree[n].lineno) = 1
        /\ \A n \in TypedHandlers(code.tree) :
               Count(LinesOf(result.v), code.tree[n].lineno) = 0
        /\ \A l \in 1..MaxNodes :
               Count(LinesOf(result.v), l) = Count(SourceOrderLines(code.tree), l)

\* Two bare handlers, the nested one first in the source and last in the walk.
C1_Witness ==
    /\ Returned("analyze_code")
    /\ code.parse = "ok"
    /\ status = "returned"
    /\ Len(result.v) = 2
    /\ TypedHandlers(code.tree) = {}
    /\ LinesOf(result.v) # SourceOrderLines(code.tree)

\* C2: for a snippet the parser rejects as a syntax error, analyze_code
\* returns exactly one finding, of severity HIGH, at the line the parser
\* reports or 0 when it reports none, whose description contains the parser's
\* message; there is no MEDIUM finding.
C2_SyntaxErrorIsOneHighFinding ==
    (Returned("analyze_code") /\ SyntaxErrorCode) =>
        /\ status = "returned"
        /\ result.type = "list"
        /\ Len(result.v) = 1
        /\ result.v[1].severity = "HIGH"
        /\ result.v[1].line_number = (IF code.lineno = NoInt THEN 0 ELSE code.lineno[1])
        /\ code.msg # <<>>
        /\ Contains(result.v[1].description, code.msg)

\* A syntax error for which the parser reports no line.
C2_Witness ==
    /\ Returned("analyze_code")
    /\ SyntaxErrorCode
    /\ code.lineno = NoInt
    /\ status = "returned"
    /\ result.v[1].line_number = 0

\* C3: when the outbound call fails, no capability raises: complete_code
\* returns the empty list, generate_documentation and explain_code the empty
\* string, refactor its code argument (for every style), and analyze_code the
\* findings of the static part alone.
C3_SafeDefaultOnRemoteFailure ==
    (pc = "returned" /\ remote.kind = "error") =>
        /\ status = "returned"
        /\ op = "complete_code" => result = PyList(<<>>)
        /\ op \in {"generate_documentation", "explain_code"} => result = PyStr(<<>>)
        /\ op = "refactor" => result = code
        /\ op = "analyze_code" => result = PyList(static_analysis(code).value)

\* refactor hands its argument back after a failed call.
C3_Witness ==
    /\ Returned("refactor")
    /\ remote.kind = "error"
    /\ style = "performance"
    /\ result = code

\* C4: every capability returns a value, whatever the parser and the service do.
C4_EveryOperationReturns ==
    pc = "returned" => status = "returned"

\* C5: every outbound call of an assistant carries the credential and the
\* model that assistant was constructed with, whatever was constructed since.
C5_CallsUseOwnCredential ==
    pc = "returned" =>
        \A k \in 1..Len(wire) :
            /\ wire[k].api_key = assistants[self].api_key
            /\ wire[k].model = assistants[self].model

\* C6: an invocation issues at most one outbound call, also when the call
\* fails and when the snippet does not parse.
C6_AtMostOneCall ==
    Len(wire) <= 1

\* analyze_code on a syntax error, the call failing: one call, no retry.
C6_Witness ==
    /\ Returned("analyze_code")
    /\ SyntaxErrorCode
    /\ remote.kind = "error"
    /\ Len(wire) = 1

\* "Bare except clause - specify exception type", with U+002D HYPHEN-MINUS.
HyphenDescription ==
    <<66, 97, 114, 101, 32, 101, 120, 99, 101, 112, 116, 32, 99, 108, 97, 117,
      115, 101, 32, 45, 32, 115, 112, 101, 99, 105, 102, 121, 32, 101, 120, 99,
      101, 112, 116, 105, 111, 110, 32, 116, 121, 112, 101>>

\* "Bare except clause — specify exception type", with U+2014 EM DASH.
EmDashDescription ==
    <<66, 97, 114, 101, 32, 101, 120, 99, 101, 112, 116, 32, 99, 108, 97, 117,
      115, 101, 32, 8212, 32, 115, 112, 101, 99, 105, 102, 121, 32, 101, 120, 99,
      101, 112, 116, 105, 111, 110, 32, 116, 121, 112, 101>>

\* "except " followed by a type name and closed by ":".
IsTypedExceptClause(s) ==
    /\ Len(s) > 8
    /\ SubSeq(s, 1, 7) = <<101, 120, 99, 101, 112, 116, 32>>
    /\ s[8] \in 65..90 \cup 97..122
    /\ s[Len(s)] = 58

BareExceptFindings ==
    IF Returned("analyze_code") /\ status = "returned"
    THEN {k \in 1..Len(result.v) : result.v[k].severity = "MEDIUM"}
    ELSE {}

FixedRemediation ==
    \A k \in BareExceptFindings :
        /\ result.v[k].fix_suggestion.type = "str"
        /\ IsTypedExceptClause(result.v[k].fix_suggestion.v)
        /\ \A j \in BareExceptFindings :
               /\ result.v[j].fix_suggestion = result.v[k].fix_suggestion
               /\ result.v[j].description = result.v[k].description

\* C7 as stated: every finding of a bare handler has the description
\* "Bare except clause — specify exception type" (em dash) and one fixed
\* fix_suggestion that is a typed exception clause.
C7_EmDashDescription ==
    /\ FixedRemediation
    /\ \A k \in BareExceptFindings : result.v[k].description = EmDashDescription

\* C7, amended: every finding of a bare handler has the description
\* "Bare except clause - specify exception type" (hyphen-minus) and one fixed
\* fix_suggestion that is a typed exception clause, whatever the clause and
\* the snippet.
C7_HyphenDescription ==
    /\ FixedRemediation
    /\ \A k \in BareExceptFindings : result.v[k].description = HyphenDescription

\* Findings of two clauses at different lines.
C7_Witness ==
    \E k, j \in BareExceptFindings : result.v[k].line_number # result.v[j].line_number

\* C8: every report analyze_code returns has a severity among LOW, MEDIUM and
\* HIGH and a line number that is a natural number, 0 only for a parse failure
\* without a reported line; a bare-except finding has a line number >= 1.
C8_WellFormedReports ==
    (Returned("analyze_code") /\ status = "returned") =>
        \A k \in 1..Len(result.v) :
            /\ result.v[k].severity \in {"LOW", "MEDIUM", "HIGH"}
            /\ result.v[k].line_number \in Nat
            /\ result.v[k].line_number = 0 => (SyntaxErrorCode /\ code.lineno = NoInt)
            /\ result.v[k].severity = "MEDIUM" => result.v[k].line_number >= 1

\* A syntax error with a reported line, reported at that line.
C8_Witness ==
    /\ Returned("analyze_code")
    /\ status = "returned"
    /\ SyntaxErrorCode
    /\ code.lineno # NoInt
    /\ result.v[1].line_number = code.lineno[1]

\* C9: what analyze_code returns is determined by the snippet: the findings of
\* the static part and nothing else, whether the call succeeds, with any
\* text, or fails; and the call is issued also for a snippet with a syntax error.
C9_ResultDependsOnSnippetOnly ==
    Returned("analyze_code") =>
        /\ status = "returned" => result = PyList(static_analysis(code).value)
        /\ (code.parse = "ok" \/ SyntaxErrorCode) =>
               /\ status = "returned"
               /\ Len(wire) = 1
               /\ remote \in Responses

\* A syntax error, the service answering with a text: the one HIGH finding.
C9_Witness ==
    /\ Returned("analyze_code")
    /\ SyntaxErrorCode
    /\ remote.kind = "ok"
    /\ remote.content.type = "str"
    /\ remote.content.v # <<>>
    /\ Len(result.v) = 1

\* The fenced blocks of text: <<i, c, j>> for an opening fence at i (three
\* backticks, optionally "python", a newline), content from c, and a closing
\* newline and fence at j >= c.
Blocks(text) ==
    LET opens == {<<i, i + Len(Fence \o Python \o Newline)>> :
                      i \in {i \in 1..Len(text) :
                                OccursAt(text, i, Fence \o Python \o Newline)}}
                 \cup {<<i, i + Len(Fence \o Newline)>> :
                          i \in {i \in 1..Len(text) : OccursAt(text, i, Fence \o Newline)}}
        closes == {j \in 1..Len(text) : OccursAt(text, j, Newline \o Fence)}
    IN {b \in {<<o[1], o[2], j>> : o \in opens, j \in closes} : b[3] >= b[2]}

\* The first block: the leftmost opening, closed as early as possible.
FirstOf(blocks) ==
    CHOOSE b \in blocks :
        \A b2 \in blocks : b[1] < b2[1] \/ (b[1] = b2[1] /\ b[3] <= b2[3])

FirstBlock(text) == FirstOf(Blocks(text))

\* C10: when the call succeeds with a text, refactor returns the content of
\* the first fenced block of the text, also when later blocks exist or the
\* content is empty, and the whole text when it has no fenced block.
C10_FirstFencedBlock ==
    (Returned("refactor") /\ remote.kind = "ok" /\ remote.content.type = "str") =>
        /\ status = "returned"
        /\ LET text == remote.content.v
               blocks == Blocks(text)
               first == FirstOf(blocks)
           IN IF blocks = {}
              THEN result = PyStr(text)
              ELSE result = PyStr(SubSeq(text, first[2], first[3] - 1))

\* An empty first block followed by a later block with a content.
C10_Witness ==
    /\ Returned("refactor")
    /\ remote.kind = "ok"
    /\ remote.content.type = "str"
    /\ result = PyStr(<<>>)
    /\ \E b \in Blocks(remote.content.v) :
           /\ b[1] > FirstBlock(remote.content.v)[3] + Len(Newline \o Fence) - 1
           /\ b[3] > b[2]

====
